---------------------------- MODULE Spec2Model ----------------------------
(***************************************************************************)
(* Model of scripts/ingest_data.py: the chunker (split_text_into_chunks),  *)
(* the embedding client (get_embeddings), the persistence layer            *)
(* (store_document, store_chunks over a psycopg2 connection opened by      *)
(* get_db_connection), the per-topic orchestrator (ingest_topic), the      *)
(* content extractors (fetch_document_content, fetch_pdf_content,          *)
(* fetch_html_content), the citation client (fetch_pubmed_articles) and    *)
(* main with its loop over the topics.                                     *)
(*                                                                         *)
(* A text is a sequence of one-character strings.  An embedding vector is  *)
(* a record [src, text, dim]: who produced it ("provider" or the "zero"    *)
(* placeholder), the index of the input text it was computed for (0 when   *)
(* it belongs to no input text) and its length.                            *)
(***************************************************************************)
EXTENDS Integers, Sequences, FiniteSets, TLC

VARIABLES
    pc,               \* position of the running function
    CHUNK_SIZE,       \* module global CHUNK_SIZE
    CHUNK_OVERLAP,    \* module global CHUNK_OVERLAP
    text,             \* chunker harness: the text handed to split_text_into_chunks
    chunks,           \* result of split_text_into_chunks / texts of get_embeddings
    rejoined,         \* chunker harness: the de-overlapped concatenation of chunks
    rechunks,         \* chunker harness: the chunks of the rejoined text
    DEEPSEEK_API_KEY, \* module global: TRUE when the environment variable is set
    all_embeddings,   \* get_embeddings: the list built so far, then its result
    ge_i,             \* get_embeddings: loop index i (start of the next batch)
    provider_calls,   \* requests.post calls made by the running get_embeddings
    responses,        \* what the provider answered to each of those calls
    pacing,           \* seconds of time.sleep after each of those calls
    all_docs,         \* ingest_topic: the candidate documents of the topic
    doc_idx,          \* ingest_topic: position of the for loop in all_docs (from 1)
    conn,             \* ingest_topic: the psycopg2 connection
    txn,              \* rows executed on conn and not yet committed
    db,               \* committed rows of the tables "Document" and "Chunk"
    uuid_counter,     \* number of uuid.uuid4() values handed out
    document_id,      \* ingest_topic: id returned by the last store_document
    sc_i,             \* store_chunks: number of (chunk, embedding) pairs visited
    sc_result,        \* how the last store_chunks call ended
    documents_saved,  \* ingest_topic counter
    chunks_saved,     \* ingest_topic counter
    processed,        \* per candidate document: times the loop body started on it
    outcome,          \* per candidate document: how its loop iteration ended
    url,              \* fetch_document_content: the url argument
    attempt,          \* fetch_*_content: loop variable of the retry loop
    headers,          \* fetch_*_content: the User-Agent of the current headers
    choices,          \* fetch_*_content: random.choice(USER_AGENTS) calls made
    fetch_log,        \* requests.get calls made: the User-Agent sent, what came back
    delays,           \* seconds of every time.sleep of the running fetch
    fetch_result,     \* what fetch_document_content returned
    pmids,            \* fetch_pubmed_articles: idlist of the search result
    pm_idx,           \* fetch_pubmed_articles: position of the for loop in pmids
    articles,         \* fetch_pubmed_articles: the list built so far, then its result
    esearch,          \* citation API: what it answers to the search request
    efetch,           \* citation API: what it answers to the detail request of a pmid
    now,              \* clock, in tenths of a second
    request_times,    \* clock value at every request sent to the citation API
    limiter_calls,    \* @limits: calls of fetch_pubmed_articles in the current period
    fields_to_process,\* main: the topics of the run
    field_idx,        \* main: position of the for loop in fields_to_process
    topic_log,        \* per topic: how its ingest_topic call went
    interrupted,      \* a KeyboardInterrupt was delivered
    earlier_runs      \* the outcome vectors of the earlier ingest_topic calls
                      \* on the same candidate documents

chunkerVars == <<text, rejoined, rechunks>>
paramVars == <<CHUNK_SIZE, CHUNK_OVERLAP>>
embedVars == <<DEEPSEEK_API_KEY, all_embeddings, ge_i, provider_calls, responses,
               pacing>>
topicVars == <<all_docs, doc_idx, conn, txn, db, uuid_counter, document_id, sc_i,
               sc_result, documents_saved, chunks_saved, processed, outcome>>
fetchVars == <<url, attempt, headers, choices, fetch_log, delays, fetch_result>>
pubmedVars == <<esearch, efetch, pmids, pm_idx, articles, now, request_times,
                limiter_calls>>
mainVars == <<fields_to_process, field_idx, topic_log, interrupted, earlier_runs>>

vars == <<pc, CHUNK_SIZE, CHUNK_OVERLAP, text, chunks, rejoined, rechunks,
          DEEPSEEK_API_KEY, all_embeddings, ge_i, provider_calls, responses, pacing,
          all_docs, doc_idx, conn, txn, db, uuid_counter, document_id, sc_i,
          sc_result, documents_saved, chunks_saved, processed, outcome,
          url, attempt, headers, choices, fetch_log, delays, fetch_result,
          esearch, efetch, pmids, pm_idx, articles, now, request_times, limiter_calls,
          fields_to_process, field_idx, topic_log, interrupted, earlier_runs>>

(***************************************************************************)
(* Bounds of the model.                                                    *)
(***************************************************************************)
MaxLen == 4
MaxChunkSize == 3
MaxTexts == 21
MaxDocs == 2
ScaledChunkSize == 2
ScaledChunkOverlap == 1

(***************************************************************************)
(* Values of the variables of a function that is not running.              *)
(***************************************************************************)
NoConn == [open |-> FALSE, autocommit |-> FALSE]
EmptyDb == [Document |-> <<>>, Chunk |-> <<>>]

EmbedIdle ==
    /\ all_embeddings = <<>>
    /\ ge_i = 0
    /\ provider_calls = 0
    /\ responses = <<>>
    /\ pacing = <<>>

TopicIdle ==
    /\ all_docs = <<>>
    /\ doc_idx = 0
    /\ conn = NoConn
    /\ txn = <<>>
    /\ db = EmptyDb
    /\ uuid_counter = 0
    /\ document_id = 0
    /\ sc_i = 0
    /\ sc_result = "none"
    /\ documents_saved = 0
    /\ chunks_saved = 0
    /\ processed = <<>>
    /\ outcome = <<>>

FetchIdle ==
    /\ url = <<>>
    /\ attempt = 0
    /\ headers = "none"
    /\ choices = 0
    /\ fetch_log = <<>>
    /\ delays = <<>>
    /\ fetch_result = "pending"

PubmedIdle ==
    /\ esearch = [status |-> "error", idlist |-> <<>>]
    /\ efetch = <<>>
    /\ pmids = <<>>
    /\ pm_idx = 0
    /\ articles = <<>>
    /\ now = 0
    /\ request_times = <<>>
    /\ limiter_calls = 0

MainIdle ==
    /\ fields_to_process = <<>>
    /\ field_idx = 0
    /\ topic_log = <<>>
    /\ interrupted = FALSE
    /\ earlier_runs = <<>>

Alphabet == {"a", "b", " "}
Whitespace == {" "}

Min(a, b) == IF a < b THEN a ELSE b

Texts(n) == UNION {[1..k -> Alphabet] : k \in 0..n}

(***************************************************************************)
(* str.strip(): leading and trailing whitespace removed.                   *)
(***************************************************************************)
RECURSIVE lstrip(_)
lstrip(s) ==
    IF s = <<>> THEN <<>>
    ELSE IF Head(s) \in Whitespace THEN lstrip(Tail(s)) ELSE s

RECURSIVE rstrip(_)
rstrip(s) ==
    IF s = <<>> THEN <<>>
    ELSE IF s[Len(s)] \in Whitespace THEN rstrip(SubSeq(s, 1, Len(s) - 1)) ELSE s

strip(s) == rstrip(lstrip(s))

(***************************************************************************)
(* range(0, n, step) as the sequence of its values.                        *)
(***************************************************************************)
range_floor(n, step) == [k \in 1..(n \div step) |-> (k - 1) * step]

range(n, step) == [k \in 1..((n + step - 1) \div step) |-> (k - 1) * step]

(***************************************************************************)
(* text[i:end_idx] for one loop index i of split_text_into_chunks.         *)
(***************************************************************************)
Window(t, i) == SubSeq(t, i + 1, Min(i + CHUNK_SIZE, Len(t)))

IsWhitespaceOnly(chunk) == strip(chunk) = <<>>

split_no_overlap(t) ==
    IF t = <<>> THEN <<>>
    ELSE LET starts == range(Len(t), CHUNK_SIZE)
             windows == [k \in 1..Len(starts) |-> Window(t, starts[k])]
         IN  SelectSeq(windows, LAMBDA chunk : strip(chunk) # <<>>)

split_append_stripped(t) ==
    IF t = <<>> THEN <<>>
    ELSE LET starts == range(Len(t), CHUNK_SIZE - CHUNK_OVERLAP)
             windows == [k \in 1..Len(starts) |-> strip(Window(t, starts[k]))]
         IN  SelectSeq(windows, LAMBDA chunk : chunk # <<>>)

split_text_into_chunks(t) ==
    IF t = <<>> THEN <<>>
    ELSE LET starts == range(Len(t), CHUNK_SIZE - CHUNK_OVERLAP)
             windows == [k \in 1..Len(starts) |-> Window(t, starts[k])]
         IN  SelectSeq(windows, LAMBDA chunk : strip(chunk) # <<>>)

(***************************************************************************)
(* De-overlapping: the first chunk whole, then every later chunk without   *)
(* its first CHUNK_OVERLAP characters (chunk[O:]), concatenated.           *)
(***************************************************************************)
DropPrefix(s, n) == SubSeq(s, n + 1, Len(s))

RECURSIVE Concat(_)
Concat(ss) == IF ss = <<>> THEN <<>> ELSE Head(ss) \o Concat(Tail(ss))

Rejoin(cs) ==
    IF cs = <<>> THEN <<>>
    ELSE Head(cs) \o Concat([k \in 1..(Len(cs) - 1) |-> DropPrefix(cs[k + 1], CHUNK_OVERLAP)])

(***************************************************************************)
(* Chunker harness: split a text, rejoin the chunks, split again.          *)
(***************************************************************************)
ChunkParams == {<<c, o>> \in (1..MaxChunkSize) \X (0..MaxChunkSize) : o < c}

InitChunk ==
    /\ pc = "chunk_start"
    /\ text \in Texts(MaxLen)
    /\ \E p \in ChunkParams : CHUNK_SIZE = p[1] /\ CHUNK_OVERLAP = p[2]
    /\ chunks = <<>>
    /\ rejoined = <<>>
    /\ rechunks = <<>>
    /\ DEEPSEEK_API_KEY = TRUE
    /\ EmbedIdle
    /\ TopicIdle
    /\ FetchIdle
    /\ PubmedIdle
    /\ MainIdle

ChunkSplit ==
    /\ pc = "chunk_start"
    /\ chunks' = split_text_into_chunks(text)
    /\ pc' = "chunk_split"
    /\ UNCHANGED <<fetchVars, pubmedVars, mainVars>>
    /\ UNCHANGED <<CHUNK_SIZE, CHUNK_OVERLAP, text, rejoined, rechunks, embedVars, topicVars>>

ChunkRejoin ==
    /\ pc = "chunk_split"
    /\ rejoined' = Rejoin(chunks)
    /\ pc' = "chunk_rejoined"
    /\ UNCHANGED <<fetchVars, pubmedVars, mainVars>>
    /\ UNCHANGED <<CHUNK_SIZE, CHUNK_OVERLAP, text, chunks, rechunks, embedVars, topicVars>>

ChunkResplit ==
    /\ pc = "chunk_rejoined"
    /\ rechunks' = split_text_into_chunks(rejoined)
    /\ pc' = "chunk_resplit"
    /\ UNCHANGED <<fetchVars, pubmedVars, mainVars>>
    /\ UNCHANGED <<CHUNK_SIZE, CHUNK_OVERLAP, text, chunks, rejoined, embedVars, topicVars>>

NextChunk == ChunkSplit \/ ChunkRejoin \/ ChunkResplit

SpecChunk == InitChunk /\ [][NextChunk]_vars

(***************************************************************************)
(* get_embeddings(texts), called on the chunks of a document.  The         *)
(* provider answers each request with an HTTP error (raise_for_status      *)
(* raises), with a body that lacks data[].embedding (KeyError), or with a  *)
(* well-formed body carrying n embeddings of length dim: n and dim are the *)
(* provider's choice.  The k-th embedding of an answer is the embedding of *)
(* the k-th text of the batch when the batch has one.                      *)
(***************************************************************************)
batch_size == 10
EMBEDDING_DIM == 1536

ZeroVector == [src |-> "zero", text |-> 0, dim |-> EMBEDDING_DIM]

Batch(texts, i) == SubSeq(texts, i + 1, Min(i + batch_size, Len(texts)))

ProviderCounts(batch) == {n \in {Len(batch) - 1, Len(batch), Len(batch) + 1} : n >= 0}
ProviderDims == {EMBEDDING_DIM - 1, EMBEDDING_DIM}

ProviderResponses(batch) ==
    {[status |-> st, n |-> 0, dim |-> 0] : st \in {"http_error", "malformed"}}
    \cup {[status |-> "ok", n |-> n, dim |-> d] : n \in ProviderCounts(batch), d \in ProviderDims}

ProviderVector(i, batch, k, d) ==
    [src |-> "provider", text |-> IF k <= Len(batch) THEN i + k ELSE 0, dim |-> d]

\* Lines 126-136 on success, line 144 in the except branch.
BatchEmbeddings(i, batch, r) ==
    IF r.status = "ok"
    THEN [k \in 1..r.n |-> ProviderVector(i, batch, k, r.dim)]
    ELSE [k \in 1..Len(batch) |-> ZeroVector]

GetEmbeddingsStart ==
    /\ pc = "ge_start"
    /\ provider_calls' = 0
    /\ responses' = <<>>
    /\ pacing' = <<>>
    /\ IF DEEPSEEK_API_KEY
       THEN /\ all_embeddings' = <<>>
            /\ ge_i' = 0
            /\ pc' = "ge_loop"
       ELSE /\ pc' = "ge_raised"
            /\ UNCHANGED <<all_embeddings, ge_i>>
    /\ UNCHANGED <<fetchVars, pubmedVars, mainVars>>
    /\ UNCHANGED <<paramVars, chunkerVars, chunks, DEEPSEEK_API_KEY, topicVars>>

GetEmbeddingsBatch ==
    /\ pc = "ge_loop"
    /\ ge_i < Len(chunks)
    /\ \E r \in ProviderResponses(Batch(chunks, ge_i)) :
        /\ provider_calls' = provider_calls + 1
        /\ responses' = Append(responses, r)
        /\ pacing' = Append(pacing, IF r.status = "ok" THEN 1 ELSE 0)
        /\ all_embeddings' = all_embeddings \o BatchEmbeddings(ge_i, Batch(chunks, ge_i), r)
    /\ ge_i' = ge_i + batch_size
    /\ UNCHANGED <<fetchVars, pubmedVars, mainVars>>
    /\ UNCHANGED <<pc, paramVars, chunkerVars, chunks, DEEPSEEK_API_KEY, topicVars>>

GetEmbeddingsReturn ==
    /\ pc = "ge_loop"
    /\ ge_i >= Len(chunks)
    /\ pc' = "ge_done"
    /\ UNCHANGED <<fetchVars, pubmedVars, mainVars>>
    /\ UNCHANGED <<paramVars, chunkerVars, chunks, embedVars, topicVars>>

(***************************************************************************)
(* get_embeddings on its own, for every number of texts up to MaxTexts.    *)
(***************************************************************************)
InitEmbed ==
    /\ pc = "ge_start"
    /\ CHUNK_SIZE = 1
    /\ CHUNK_OVERLAP = 0
    /\ text = <<>>
    /\ rejoined = <<>>
    /\ rechunks = <<>>
    /\ chunks \in {[k \in 1..n |-> <<"a">>] : n \in 0..MaxTexts}
    /\ DEEPSEEK_API_KEY \in BOOLEAN
    /\ EmbedIdle
    /\ TopicIdle
    /\ FetchIdle
    /\ PubmedIdle
    /\ MainIdle

NextEmbed == GetEmbeddingsStart \/ GetEmbeddingsBatch \/ GetEmbeddingsReturn

SpecEmbed == InitEmbed /\ [][NextEmbed]_vars

(***************************************************************************)
(* The psycopg2 connection.  get_db_connection sets autocommit: every      *)
(* statement executed on such a connection is committed as it runs, and    *)
(* commit() and rollback() find no open transaction.  Without autocommit   *)
(* executed rows wait in txn until commit() or rollback().                 *)
(***************************************************************************)
get_db_connection == [open |-> TRUE, autocommit |-> TRUE]

execute_dedup(c, d, t, tbl, row) ==
    IF tbl = "Document" /\ \E r \in 1..Len(d.Document) : d.Document[r].doc = row.doc
    THEN [db |-> d, txn |-> t]
    ELSE IF c.autocommit
         THEN [db |-> [d EXCEPT ![tbl] = Append(@, row)], txn |-> t]
         ELSE [db |-> d, txn |-> Append(t, [table |-> tbl, row |-> row])]

execute(c, d, t, tbl, row) ==
    IF c.autocommit
    THEN [db |-> [d EXCEPT ![tbl] = Append(@, row)], txn |-> t]
    ELSE [db |-> d, txn |-> Append(t, [table |-> tbl, row |-> row])]

RECURSIVE Apply(_, _)
Apply(d, t) ==
    IF t = <<>> THEN d
    ELSE Apply([d EXCEPT ![Head(t).table] = Append(@, Head(t).row)], Tail(t))

commit(d, t) == [db |-> Apply(d, t), txn |-> <<>>]

rollback(d, t) == [db |-> d, txn |-> <<>>]

(***************************************************************************)
(* The column "Chunk".embedding is declared vector(1536): the store        *)
(* refuses a value of any other length.                                    *)
(***************************************************************************)
VectorColumnAcceptsAny(e) == TRUE

VectorColumnAccepts(e) == e.dim = EMBEDDING_DIM

(***************************************************************************)
(* ingest_topic(topic), from the candidate documents all_docs on.          *)
(***************************************************************************)
Content(d) == all_docs[d].content

\* The except branch of the for loop (lines 518-520) and the continue
\* statements: the iteration on this document ends, the loop goes on.
NextDocumentPropagates(how) ==
    /\ outcome' = [outcome EXCEPT ![doc_idx] = how]
    /\ IF how \in {"failed_store_document", "failed_get_embeddings", "failed_store_chunks"}
       THEN /\ pc' = "it_return"
            /\ UNCHANGED doc_idx
       ELSE /\ doc_idx' = doc_idx + 1
            /\ pc' = "it_loop"

NextDocument(how) ==
    /\ outcome' = [outcome EXCEPT ![doc_idx] = how]
    /\ doc_idx' = doc_idx + 1
    /\ pc' = "it_loop"

IngestTopicNoDocs ==
    /\ pc = "it_start"
    /\ all_docs = <<>>
    /\ pc' = "it_return"
    /\ UNCHANGED <<fetchVars, pubmedVars, mainVars>>
    /\ UNCHANGED <<paramVars, chunkerVars, chunks, embedVars, topicVars>>

IngestTopicConnect ==
    /\ pc = "it_start"
    /\ all_docs # <<>>
    /\ \E connected \in BOOLEAN :
        IF connected
        THEN /\ conn' = get_db_connection
             /\ documents_saved' = 0
             /\ chunks_saved' = 0
             /\ doc_idx' = 1
             /\ pc' = "it_loop"
        ELSE /\ pc' = "it_return"
             /\ UNCHANGED <<conn, doc_idx, documents_saved, chunks_saved>>
    /\ UNCHANGED <<fetchVars, pubmedVars, mainVars>>
    /\ UNCHANGED <<paramVars, chunkerVars, chunks, embedVars, all_docs, txn, db,
                   uuid_counter, document_id, sc_i, sc_result, processed, outcome>>

IngestTopicNextDoc ==
    /\ pc = "it_loop"
    /\ doc_idx <= Len(all_docs)
    /\ processed' = [processed EXCEPT ![doc_idx] = @ + 1]
    /\ IF Content(doc_idx) = <<>>
       THEN NextDocument("no_content")
       ELSE /\ pc' = "store_document"
            /\ UNCHANGED <<outcome, doc_idx>>
    /\ UNCHANGED <<fetchVars, pubmedVars, mainVars>>
    /\ UNCHANGED <<paramVars, chunkerVars, chunks, embedVars, all_docs, conn, txn, db,
                   uuid_counter, document_id, sc_i, sc_result, documents_saved,
                   chunks_saved>>

IngestTopicEnd ==
    /\ pc = "it_loop"
    /\ doc_idx > Len(all_docs)
    /\ conn' = [conn EXCEPT !.open = FALSE]
    /\ pc' = "it_return"
    /\ UNCHANGED <<fetchVars, pubmedVars, mainVars>>
    /\ UNCHANGED <<paramVars, chunkerVars, chunks, embedVars, all_docs, doc_idx, txn, db,
                   uuid_counter, document_id, sc_i, sc_result, documents_saved,
                   chunks_saved, processed, outcome>>

\* store_document and its call site: the INSERT either runs or raises.
StoreDocument ==
    /\ pc = "store_document"
    /\ uuid_counter' = uuid_counter + 1
    /\ \E inserted \in BOOLEAN :
        IF inserted
        THEN LET row == [id |-> uuid_counter + 1, doc |-> doc_idx,
                         content |-> Content(doc_idx)]
                 e == execute(conn, db, txn, "Document", row)
                 c == commit(e.db, e.txn)
             IN  /\ db' = c.db
                 /\ txn' = c.txn
                 /\ document_id' = uuid_counter + 1
                 /\ documents_saved' = documents_saved + 1
                 /\ pc' = "split"
                 /\ UNCHANGED <<outcome, doc_idx>>
        ELSE LET r == rollback(db, txn)
             IN  /\ db' = r.db
                 /\ txn' = r.txn
                 /\ NextDocument("failed_store_document")
                 /\ UNCHANGED <<document_id, documents_saved>>
    /\ UNCHANGED <<fetchVars, pubmedVars, mainVars>>
    /\ UNCHANGED <<paramVars, chunkerVars, chunks, embedVars, all_docs, conn, sc_i,
                   sc_result, chunks_saved, processed>>

SplitContent ==
    /\ pc = "split"
    /\ chunks' = split_text_into_chunks(Content(doc_idx))
    /\ IF chunks' = <<>>
       THEN NextDocument("no_chunks")
       ELSE /\ pc' = "ge_start"
            /\ UNCHANGED <<outcome, doc_idx>>
    /\ UNCHANGED <<fetchVars, pubmedVars, mainVars>>
    /\ UNCHANGED <<paramVars, chunkerVars, embedVars, all_docs, conn, txn, db,
                   uuid_counter, document_id, sc_i, sc_result, documents_saved,
                   chunks_saved, processed>>

\* get_embeddings raised: caught by the for loop's except branch.
IngestTopicCatchEmbed ==
    /\ pc = "ge_raised"
    /\ NextDocument("failed_get_embeddings")
    /\ UNCHANGED <<fetchVars, pubmedVars, mainVars>>
    /\ UNCHANGED <<paramVars, chunkerVars, chunks, embedVars, all_docs, conn, txn, db,
                   uuid_counter, document_id, sc_i, sc_result, documents_saved,
                   chunks_saved, processed>>

\* zip(chunks, embeddings) stops at the shorter of the two lists.
ZipLen == Min(Len(chunks), Len(all_embeddings))

StoreChunksStart ==
    /\ pc = "ge_done"
    /\ sc_i' = 0
    /\ sc_result' = "running"
    /\ pc' = "sc_loop"
    /\ UNCHANGED <<fetchVars, pubmedVars, mainVars>>
    /\ UNCHANGED <<paramVars, chunkerVars, chunks, embedVars, all_docs, doc_idx, conn,
                   txn, db, uuid_counter, document_id, documents_saved, chunks_saved,
                   processed, outcome>>

ChunkRowOwnId(i) ==
    [id |-> uuid_counter + 1,
     documentId |-> uuid_counter + 1,
     text |-> chunks[i + 1],
     embedding |-> all_embeddings[i + 1],
     sequenceNumber |-> i,
     metadata |-> [position |-> i]]

ChunkRowOneBased(i) ==
    [id |-> uuid_counter + 1,
     documentId |-> document_id,
     text |-> chunks[i + 1],
     embedding |-> all_embeddings[i + 1],
     sequenceNumber |-> i + 1,
     metadata |-> [position |-> i + 1]]

ChunkRow(i) ==
    [id |-> uuid_counter + 1,
     documentId |-> document_id,
     text |-> chunks[i + 1],
     embedding |-> all_embeddings[i + 1],
     sequenceNumber |-> i,
     metadata |-> [position |-> i]]

\* One iteration of the loop of store_chunks: the INSERT either runs, or
\* raises and the except branch rolls back and re-raises to ingest_topic.
StoreChunksInsert ==
    /\ pc = "sc_loop"
    /\ sc_i < ZipLen
    /\ uuid_counter' = uuid_counter + 1
    /\ \E inserted \in BOOLEAN :
        IF inserted /\ VectorColumnAccepts(ChunkRow(sc_i).embedding)
        THEN LET e == execute(conn, db, txn, "Chunk", ChunkRow(sc_i))
             IN  /\ db' = e.db
                 /\ txn' = e.txn
                 /\ sc_i' = sc_i + 1
                 /\ UNCHANGED <<pc, sc_result, outcome, doc_idx>>
        ELSE LET r == rollback(db, txn)
             IN  /\ db' = r.db
                 /\ txn' = r.txn
                 /\ sc_result' = "raised"
                 /\ NextDocument("failed_store_chunks")
                 /\ UNCHANGED sc_i
    /\ UNCHANGED <<fetchVars, pubmedVars, mainVars>>
    /\ UNCHANGED <<paramVars, chunkerVars, chunks, embedVars, all_docs, conn,
                   document_id, documents_saved, chunks_saved, processed>>

StoreChunksCommit ==
    /\ pc = "sc_loop"
    /\ sc_i >= ZipLen
    /\ LET c == commit(db, txn)
       IN  /\ db' = c.db
           /\ txn' = c.txn
    /\ sc_result' = "returned"
    /\ chunks_saved' = chunks_saved + Len(chunks)
    /\ NextDocument("stored")
    /\ UNCHANGED <<fetchVars, pubmedVars, mainVars>>
    /\ UNCHANGED <<paramVars, chunkerVars, chunks, embedVars, all_docs, conn,
                   uuid_counter, document_id, sc_i, documents_saved, processed>>

(***************************************************************************)
(* One run of ingest_topic over every list of candidate documents.         *)
(***************************************************************************)
DocContents == {<<>>, <<" ">>, <<"a", "b">>, <<"a", "b", "c">>}

Init ==
    /\ pc = "it_start"
    /\ CHUNK_SIZE = ScaledChunkSize
    /\ CHUNK_OVERLAP = ScaledChunkOverlap
    /\ text = <<>>
    /\ rejoined = <<>>
    /\ rechunks = <<>>
    /\ chunks = <<>>
    /\ DEEPSEEK_API_KEY \in BOOLEAN
    /\ EmbedIdle
    /\ all_docs \in UNION {[1..n -> {[content |-> t] : t \in DocContents}] : n \in 0..MaxDocs}
    /\ doc_idx = 0
    /\ conn = NoConn
    /\ txn = <<>>
    /\ db = EmptyDb
    /\ uuid_counter = 0
    /\ document_id = 0
    /\ sc_i = 0
    /\ sc_result = "none"
    /\ documents_saved = 0
    /\ chunks_saved = 0
    /\ processed = [d \in 1..Len(all_docs) |-> 0]
    /\ outcome = [d \in 1..Len(all_docs) |-> "pending"]
    /\ FetchIdle
    /\ PubmedIdle
    /\ MainIdle

Next ==
    \/ IngestTopicNoDocs
    \/ IngestTopicConnect
    \/ IngestTopicNextDoc
    \/ IngestTopicEnd
    \/ StoreDocument
    \/ SplitContent
    \/ GetEmbeddingsStart
    \/ GetEmbeddingsBatch
    \/ GetEmbeddingsReturn
    \/ IngestTopicCatchEmbed
    \/ StoreChunksStart
    \/ StoreChunksInsert
    \/ StoreChunksCommit

Spec == Init /\ [][Next]_vars

(***************************************************************************)
(* The store as a reader sees it, and what get_embeddings was answered.    *)
(***************************************************************************)
ChunkRowsOf(id) == SelectSeq(db.Chunk, LAMBDA r : r.documentId = id)
DocumentRowsOf(d) == SelectSeq(db.Document, LAMBDA r : r.doc = d)
SequenceNumbers(rows) == [k \in 1..Len(rows) |-> rows[k].sequenceNumber]

NumBatches(n) == (n + batch_size - 1) \div batch_size
BatchOf(j) == ((j - 1) \div batch_size) + 1
BatchFailed(b) == responses[b].status # "ok"
NoVector == [src |-> "none", text |-> 0, dim |-> 0]
Received(j) == IF j <= Len(all_embeddings) THEN all_embeddings[j] ELSE NoVector

\* C1: once store_chunks has returned or raised, the store holds either all
\* Chunk rows of the document it was called for or none of them.
C1_StoreChunksAllOrNothing ==
    sc_result \in {"returned", "raised"} =>
        Len(ChunkRowsOf(document_id)) \in {0, Len(chunks)}

\* C2: get_embeddings makes ceil(N/B) provider calls and returns N vectors,
\* the i-th one belonging to the i-th text (the provider's vector for it, or
\* the placeholder of its failed batch), whatever the provider answers.
C2_OneVectorPerTextInOrder ==
    pc = "ge_done" =>
        /\ provider_calls = NumBatches(Len(chunks))
        /\ Len(all_embeddings) = Len(chunks)
        /\ \A j \in 1..Len(chunks) :
            \/ all_embeddings[j].src = "provider" /\ all_embeddings[j].text = j
            \/ all_embeddings[j] = ZeroVector /\ BatchFailed(BatchOf(j))

C8_OneRowPerChunkInOrder ==
    \A d \in 1..Len(all_docs) :
        outcome[d] = "stored" =>
            \A k \in 1..Len(DocumentRowsOf(d)) :
                LET rows == ChunkRowsOf(DocumentRowsOf(d)[k].id)
                    n == Len(split_text_into_chunks(Content(d)))
                IN  /\ SequenceNumbers(rows) = [i \in 1..n |-> i - 1]
                    /\ \A i \in 1..Len(rows) :
                        rows[i].metadata.position = rows[i].sequenceNumber

\* C9: no candidate document is processed twice, every document the loop
\* has passed was processed once and has an outcome, and a run that opened
\* its connection ends with every document processed exactly once, also
\* when documents before it failed in store_document, get_embeddings or
\* store_chunks.
C9_FailureIsolated ==
    \A d \in 1..Len(all_docs) :
        /\ processed[d] <= 1
        /\ (0 < doc_idx /\ d < doc_idx) => (processed[d] = 1 /\ outcome[d] # "pending")
        /\ (pc = "it_return" /\ 0 < doc_idx) => (processed[d] = 1 /\ outcome[d] # "pending")

C9_Witness ==
    /\ pc = "it_return"
    /\ Len(all_docs) = 2
    /\ outcome[1] = "failed_store_chunks"
    /\ processed[2] = 1
    /\ outcome[2] = "stored"

\* C10: a document whose store_document or store_chunks call failed has left
\* no Chunk row and no Document row in the store.
C10_FailedDocumentLeavesNothing ==
    \A d \in 1..Len(all_docs) :
        outcome[d] \in {"failed_store_document", "failed_store_chunks"} =>
            /\ DocumentRowsOf(d) = <<>>
            /\ \A k \in 1..Len(db.Chunk) :
                \A r \in 1..Len(db.Document) :
                    db.Document[r].doc = d => db.Chunk[k].documentId # db.Document[r].id

(***************************************************************************)
(* The windows the loop of split_text_into_chunks visits for a text, kept  *)
(* or dropped, and the stride formula ceil(L / (C - O)).                   *)
(***************************************************************************)
Stride == CHUNK_SIZE - CHUNK_OVERLAP
NumStrides(L) == (L + Stride - 1) \div Stride
WindowsOf(t) == [k \in 1..NumStrides(Len(t)) |-> Window(t, (k - 1) * Stride)]
DroppedWindows(t) == {k \in 1..NumStrides(Len(t)) : IsWhitespaceOnly(WindowsOf(t)[k])}

\* C5 (as claimed): for 0 <= O < C <= L, de-overlapping and concatenating the
\* chunks of a text gives back the text, whitespace runs included.
C5_RoundTripAlways ==
    (pc = "chunk_rejoined" /\ CHUNK_SIZE <= Len(text)) => rejoined = text

\* C5 (amended): for 0 <= O < C <= L, de-overlapping and concatenating the
\* chunks gives back the text exactly when no whitespace-only window longer
\* than O characters exists in it; such a window is dropped by the chunker
\* and its characters are missing from the rejoined text.
C5_RoundTripUnlessDropped ==
    (pc = "chunk_rejoined" /\ CHUNK_SIZE <= Len(text)) =>
        (rejoined = text <=>
            \A k \in DroppedWindows(text) : Len(WindowsOf(text)[k]) <= CHUNK_OVERLAP)

C5_Witness ==
    /\ pc = "chunk_rejoined"
    /\ CHUNK_SIZE <= Len(text)
    /\ CHUNK_OVERLAP > 0
    /\ Len(chunks) >= 2
    /\ \E i \in 1..Len(text) : text[i] \in Whitespace
    /\ rejoined = text

\* C6 (as claimed): every chunk has at most C characters and the number of
\* chunks is ceil(L / (C - O)); the empty text gives no chunk.
C6_CountIsStrideFormula ==
    pc = "chunk_split" =>
        /\ \A k \in 1..Len(chunks) : Len(chunks[k]) <= CHUNK_SIZE
        /\ Len(chunks) = NumStrides(Len(text))
        /\ (text = <<>> => chunks = <<>>)

\* C6 (amended): every chunk has at most C characters and the number of
\* chunks is ceil(L / (C - O)) minus the number of whitespace-only windows,
\* which are dropped; the empty text gives no chunk.
C6_CountIsStridesMinusDropped ==
    pc = "chunk_split" =>
        /\ \A k \in 1..Len(chunks) : Len(chunks[k]) <= CHUNK_SIZE
        /\ Len(chunks) = NumStrides(Len(text)) - Cardinality(DroppedWindows(text))
        /\ (text = <<>> => chunks = <<>>)

C6_Witness ==
    /\ pc = "chunk_split"
    /\ Len(text) = MaxLen
    /\ DroppedWindows(text) # {}
    /\ Len(chunks) >= 2
    /\ \E k \in 1..Len(chunks) : Len(chunks[k]) < CHUNK_SIZE

C11_MissingKeyAbortsBeforeWork ==
    ~DEEPSEEK_API_KEY =>
        /\ provider_calls = 0
        /\ db.Document = <<>>
        /\ db.Chunk = <<>>
        /\ \A d \in 1..Len(all_docs) : outcome[d] # "failed_get_embeddings"

(***************************************************************************)
(* fetch_document_content(url) and the two extractors it dispatches to.    *)
(* A url is the sequence of its parts, the last one being what endswith    *)
(* looks at.  One requests.get brings back one of:                         *)
(*   "timeout"        requests.get raises a RequestException               *)
(*   "status_403"     a response with status code 403                      *)
(*   "status_500"     a response with another error status                 *)
(*   "ok_text"        status 200, the extracted text is not empty          *)
(*   "ok_empty"       status 200, the extracted text is empty              *)
(*   "ok_unparsable"  status 200, the parser raises                        *)
(***************************************************************************)
USER_AGENTS == {"chrome_windows", "chrome_linux", "firefox_windows",
                "firefox_mac", "safari_mac", "chrome_ipad"}
max_retries == 3

Urls == {<<>>, <<"paper", ".pdf">>, <<"page", ".html">>, <<"paper", ".pdf", "?download=1">>}

endswith(u, suffix) == u # <<>> /\ u[Len(u)] = suffix

GetOutcomes == {"timeout", "status_403", "status_500", "ok_text", "ok_empty", "ok_unparsable"}

\* response.raise_for_status() raises HTTPError, a RequestException, for
\* every error status it is reached with.
raise_for_status(o) == o \in {"status_403", "status_500"}

\* What the code after a response with status 200 returns.
Extracted(o) == IF o = "ok_text" THEN "text" ELSE "none"

\* time.sleep(2 * (attempt + 1)) of the except branches.
RetrySleepSkipped(ds, a) == ds

RetrySleep(ds, a) == Append(ds, 2 * (a + 1))

FetchDocumentContent ==
    /\ pc = "fetch_start"
    /\ IF url = <<>>
       THEN /\ fetch_result' = "none"
            /\ pc' = "fetch_done"
       ELSE /\ pc' = IF endswith(url, ".pdf") THEN "pdf_start" ELSE "html_loop"
            /\ UNCHANGED fetch_result
    /\ UNCHANGED <<paramVars, chunkerVars, chunks, embedVars, topicVars, url, attempt,
                   headers, choices, fetch_log, delays, pubmedVars, mainVars>>

\* fetch_pdf_content up to the loop: the headers are built once.
FetchPdfStart ==
    /\ pc = "pdf_start"
    /\ \E ua \in USER_AGENTS : headers' = ua
    /\ choices' = choices + 1
    /\ attempt' = 0
    /\ pc' = "pdf_loop"
    /\ UNCHANGED <<paramVars, chunkerVars, chunks, embedVars, topicVars, url,
                   fetch_log, delays, fetch_result, pubmedVars, mainVars>>

\* One iteration of the loop of fetch_pdf_content and, when it breaks out,
\* the rest of the function; the raise of the last attempt is caught by
\* the function's own except Exception, which returns None.
FetchPdfAttempt ==
    /\ pc = "pdf_loop"
    /\ attempt < max_retries
    /\ \E o \in GetOutcomes :
        /\ fetch_log' = Append(fetch_log, [agent |-> headers, outcome |-> o])
        /\ IF o = "timeout" \/ raise_for_status(o)
           THEN IF attempt = max_retries - 1
                THEN /\ fetch_result' = "none"
                     /\ pc' = "fetch_done"
                     /\ UNCHANGED <<attempt, delays>>
                ELSE /\ delays' = RetrySleep(delays, attempt)
                     /\ attempt' = attempt + 1
                     /\ UNCHANGED <<pc, fetch_result>>
           ELSE /\ fetch_result' = Extracted(o)
                /\ pc' = "fetch_done"
                /\ UNCHANGED <<attempt, delays>>
    /\ UNCHANGED <<paramVars, chunkerVars, chunks, embedVars, topicVars, url, headers,
                   choices, pubmedVars, mainVars>>

\* One iteration of the loop of fetch_html_content: new headers, the
\* request, the 403 test, raise_for_status, the extraction, the two except
\* branches.
FetchHtmlAttempt ==
    /\ pc = "html_loop"
    /\ attempt < max_retries
    /\ \E ua \in USER_AGENTS, o \in GetOutcomes :
        /\ headers' = ua
        /\ choices' = choices + 1
        /\ fetch_log' = Append(fetch_log, [agent |-> ua, outcome |-> o])
        /\ IF o = "status_403"
           THEN /\ fetch_result' = "none"
                /\ pc' = "fetch_done"
                /\ UNCHANGED <<attempt, delays>>
           ELSE IF o = "timeout" \/ raise_for_status(o)
           THEN IF attempt = max_retries - 1
                THEN /\ fetch_result' = "none"
                     /\ pc' = "fetch_done"
                     /\ UNCHANGED <<attempt, delays>>
                ELSE /\ delays' = RetrySleep(delays, attempt)
                     /\ attempt' = attempt + 1
                     /\ UNCHANGED <<pc, fetch_result>>
           ELSE /\ fetch_result' = Extracted(o)
                /\ pc' = "fetch_done"
                /\ UNCHANGED <<attempt, delays>>
    /\ UNCHANGED <<paramVars, chunkerVars, chunks, embedVars, topicVars, url,
                   pubmedVars, mainVars>>

InitFetch ==
    /\ pc = "fetch_start"
    /\ CHUNK_SIZE = 1
    /\ CHUNK_OVERLAP = 0
    /\ text = <<>>
    /\ rejoined = <<>>
    /\ rechunks = <<>>
    /\ chunks = <<>>
    /\ DEEPSEEK_API_KEY = TRUE
    /\ EmbedIdle
    /\ TopicIdle
    /\ url \in Urls
    /\ attempt = 0
    /\ headers = "none"
    /\ choices = 0
    /\ fetch_log = <<>>
    /\ delays = <<>>
    /\ fetch_result = "pending"
    /\ PubmedIdle
    /\ MainIdle

NextFetch == FetchDocumentContent \/ FetchPdfStart \/ FetchPdfAttempt \/ FetchHtmlAttempt

SpecFetch == InitFetch /\ [][NextFetch]_vars

Transient(o) == o \in {"timeout", "status_500"}

\* C13: on the HTML path and on the PDF path alike, a response with status
\* 403 is the last request of the fetch, no time.sleep follows it and the
\* fetch returns None.
C13_ForbiddenEndsFetch ==
    \A k \in 1..Len(fetch_log) :
        fetch_log[k].outcome = "status_403" =>
            /\ Len(fetch_log) = k
            /\ Len(delays) = k - 1
            /\ pc = "fetch_done"
            /\ fetch_result = "none"

\* C14: a fetch makes at most 3 requests; when the first k requests (k in
\* {0, 1, 2}) fail transiently and the next one brings a non-empty text,
\* the text is returned after exactly k sleeps; after 3 transient failures
\* the fetch returns None; the fetch always ends by returning.
C14_RetryBoundedNeverFatal ==
    /\ Len(fetch_log) <= max_retries
    /\ pc \in {"fetch_start", "pdf_start", "pdf_loop", "html_loop", "fetch_done"}
    /\ \A k \in 0..(max_retries - 1) :
        (/\ Len(fetch_log) = k + 1
         /\ \A j \in 1..k : Transient(fetch_log[j].outcome)
         /\ fetch_log[k + 1].outcome = "ok_text") =>
            /\ pc = "fetch_done"
            /\ fetch_result = "text"
            /\ Len(delays) = k
    /\ (/\ Len(fetch_log) = max_retries
        /\ \A j \in 1..max_retries : Transient(fetch_log[j].outcome)) =>
            /\ pc = "fetch_done"
            /\ fetch_result = "none"
    /\ pc = "fetch_done" => fetch_result \in {"none", "text"}

C14_Witness ==
    /\ pc = "fetch_done"
    /\ endswith(url, ".pdf")
    /\ Len(fetch_log) = max_retries
    /\ \A j \in 1..(max_retries - 1) : Transient(fetch_log[j].outcome)
    /\ fetch_log[max_retries].outcome = "ok_text"
    /\ fetch_result = "text"
    /\ delays = <<2, 4>>

(***************************************************************************)
(* fetch_pubmed_articles(topic).  The citation API answers the search      *)
(* request with an error or with an idlist, and the detail request of a    *)
(* pmid with an error (the request, raise_for_status or the XML parser     *)
(* raises) or with a document holding PubmedArticle elements, each one the *)
(* sequence of the texts of its AbstractText elements; the text of an      *)
(* element without text is None.  The clock counts tenths of a second and  *)
(* a request is answered within the tenth it was sent in.                  *)
(***************************************************************************)
NCBI_RATE_LIMIT == 10
NCBI_PERIOD == 1
TicksPerSecond == 10
MaxPmids == 2
MaxBurst == 11

None == <<"None">>
SectionText == <<"a", "b">>

ArticleLists ==
    {<<>>, <<<<>>>>, <<<<None>>>>, <<<<SectionText>>>>, <<<<None, SectionText>>>>,
     <<<<None, SectionText, SectionText>>>>, <<<<SectionText>>, <<None>>>>}

DetailResponses ==
    {[status |-> "error", articles |-> <<>>]}
    \cup {[status |-> "ok", articles |-> a] : a \in ArticleLists}

IdLists(n) ==
    UNION {{l \in [1..k -> 1..n] : \A i, j \in 1..k : i # j => l[i] # l[j]} : k \in 0..n}

Range(f) == {f[i] : i \in DOMAIN f}

\* " ".join(texts)
RECURSIVE Join(_)
Join(texts) ==
    IF texts = <<>> THEN <<>>
    ELSE IF Len(texts) = 1 THEN texts[1]
    ELSE texts[1] \o <<" ">> \o Join(Tail(texts))

\* Lines 212-222: the text of the first AbstractText and, when there is
\* none, the joined texts of all AbstractText elements; <<>> is the
\* abstract that "if abstract" rejects.
AbstractFirstOnly(sections) ==
    IF sections = <<>> \/ sections[1] = None THEN <<>> ELSE sections[1]

Abstract(sections) ==
    IF sections # <<>> /\ sections[1] # None
    THEN sections[1]
    ELSE Join(SelectSeq(sections, LAMBDA x : x # None))

\* The dicts appended for one detail response (lines 208-233).
RECURSIVE Retrieved(_, _)
Retrieved(pmid, arts) ==
    IF arts = <<>> THEN <<>>
    ELSE (IF Abstract(Head(arts)) # <<>>
          THEN <<[pmid |-> pmid, content |-> Abstract(Head(arts))]>>
          ELSE <<>>) \o Retrieved(pmid, Tail(arts))

\* The decorators: the call is counted against NCBI_RATE_LIMIT calls per
\* NCBI_PERIOD and waits for the next period when the count is used up.
PubmedEnter ==
    /\ pc = "pm_start"
    /\ IF limiter_calls + 1 > NCBI_RATE_LIMIT
       THEN /\ now' = now + NCBI_PERIOD * TicksPerSecond
            /\ limiter_calls' = 1
       ELSE /\ limiter_calls' = limiter_calls + 1
            /\ UNCHANGED now
    /\ pc' = "pm_search"
    /\ UNCHANGED <<paramVars, chunkerVars, chunks, embedVars, topicVars, fetchVars,
                   esearch, efetch, pmids, pm_idx, articles, request_times, mainVars>>

\* Lines 172-187: the search request and the idlist.
PubmedSearch ==
    /\ pc = "pm_search"
    /\ request_times' = Append(request_times, now)
    /\ IF esearch.status = "error"
       THEN /\ articles' = <<>>
            /\ pc' = "pm_return"
            /\ UNCHANGED <<pmids, pm_idx>>
       ELSE /\ pmids' = esearch.idlist
            /\ articles' = <<>>
            /\ IF esearch.idlist = <<>>
               THEN /\ pc' = "pm_return"
                    /\ UNCHANGED pm_idx
               ELSE /\ pm_idx' = 1
                    /\ pc' = "pm_loop"
    /\ UNCHANGED <<paramVars, chunkerVars, chunks, embedVars, topicVars, fetchVars,
                   esearch, efetch, now, limiter_calls, mainVars>>

\* One iteration of the loop over pmids (lines 189-241).
PubmedDetail ==
    /\ pc = "pm_loop"
    /\ pm_idx <= Len(pmids)
    /\ request_times' = Append(request_times, now)
    /\ LET r == efetch[pmids[pm_idx]]
       IN  IF r.status = "error"
           THEN UNCHANGED <<articles, now>>
           ELSE /\ articles' = articles \o Retrieved(pmids[pm_idx], r.articles)
                /\ now' = now + 1
    /\ pm_idx' = pm_idx + 1
    /\ UNCHANGED <<pc, paramVars, chunkerVars, chunks, embedVars, topicVars, fetchVars,
                   esearch, efetch, pmids, limiter_calls, mainVars>>

PubmedReturn ==
    /\ pc = "pm_loop"
    /\ pm_idx > Len(pmids)
    /\ pc' = "pm_return"
    /\ UNCHANGED <<paramVars, chunkerVars, chunks, embedVars, topicVars, fetchVars,
                   pubmedVars, mainVars>>

\* Every idlist of up to MaxPmids identifiers with every answer to each
\* detail request, and idlists of up to MaxBurst identifiers whose detail
\* requests are all answered alike.
PubmedAnswers ==
    {[search |-> [status |-> "error", idlist |-> <<>>], fetch |-> <<>>]}
    \cup {[search |-> [status |-> "ok", idlist |-> l], fetch |-> f] :
            l \in IdLists(MaxPmids), f \in [1..MaxPmids -> DetailResponses]}
    \cup {[search |-> [status |-> "ok", idlist |-> [i \in 1..n |-> i]],
           fetch |-> [i \in 1..n |-> r]] : n \in 0..MaxBurst, r \in DetailResponses}

InitPubmed ==
    /\ pc = "pm_start"
    /\ CHUNK_SIZE = 1
    /\ CHUNK_OVERLAP = 0
    /\ text = <<>>
    /\ rejoined = <<>>
    /\ rechunks = <<>>
    /\ chunks = <<>>
    /\ DEEPSEEK_API_KEY = TRUE
    /\ EmbedIdle
    /\ TopicIdle
    /\ FetchIdle
    /\ \E a \in PubmedAnswers : esearch = a.search /\ efetch = a.fetch
    /\ pmids = <<>>
    /\ pm_idx = 0
    /\ articles = <<>>
    /\ now = 0
    /\ request_times = <<>>
    /\ limiter_calls = 0
    /\ MainIdle

NextPubmed == PubmedEnter \/ PubmedSearch \/ PubmedDetail \/ PubmedReturn

SpecPubmed == InitPubmed /\ [][NextPubmed]_vars

PosOf(id) == CHOOSE k \in 1..Len(pmids) : pmids[k] = id
HasAbstract(sections) == \E k \in 1..Len(sections) : sections[k] # None
WithAbstract(id) ==
    IF efetch[id].status = "ok"
    THEN {a \in 1..Len(efetch[id].articles) : HasAbstract(efetch[id].articles[a])}
    ELSE {}

\* C16: when the search succeeded, fetch_pubmed_articles has sent one detail
\* request for every identifier of the idlist, failed ones notwithstanding,
\* and returns, in idlist order, the articles with a non-empty abstract of
\* the identifiers whose detail request succeeded, and no other article.
C16_ArticlesOfSucceededIdsInOrder ==
    (pc = "pm_return" /\ esearch.status = "ok") =>
        /\ pmids = esearch.idlist
        /\ Len(request_times) = 1 + Len(pmids)
        /\ \A k \in 1..Len(articles) :
            /\ articles[k].pmid \in Range(pmids)
            /\ articles[k].content # <<>>
        /\ \A i, j \in 1..Len(articles) :
            i < j => PosOf(articles[i].pmid) <= PosOf(articles[j].pmid)
        /\ \A id \in Range(pmids) :
            Cardinality({k \in 1..Len(articles) : articles[k].pmid = id})
                = Cardinality(WithAbstract(id))

C16_Witness ==
    /\ pc = "pm_return"
    /\ pmids = <<2, 1>>
    /\ efetch[2].status = "error"
    /\ efetch[1] = [status |-> "ok", articles |-> <<<<None, SectionText, SectionText>>>>]
    /\ articles = <<[pmid |-> 1, content |-> <<"a", "b", " ", "a", "b">>]>>

\* C17: no window of one second holds more than NCBI_RATE_LIMIT requests to
\* the citation API, search and detail requests alike: any request and the
\* NCBI_RATE_LIMIT-th request after it are at least NCBI_PERIOD apart.
C17_AtMostLimitPerPeriod ==
    \A i, j \in 1..Len(request_times) :
        j - i >= NCBI_RATE_LIMIT =>
            request_times[j] - request_times[i] >= NCBI_PERIOD * TicksPerSecond

(***************************************************************************)
(* The stages of ingest_topic a candidate document has been through.       *)
(***************************************************************************)
InStage(d, labels) == doc_idx = d /\ pc \in labels

Chunked(d) ==
    \/ InStage(d, {"ge_start", "ge_raised", "ge_loop", "ge_done", "sc_loop"})
    \/ outcome[d] \in {"no_chunks", "failed_get_embeddings", "failed_store_chunks", "stored"}

Embedded(d) ==
    \/ InStage(d, {"ge_done", "sc_loop"})
    \/ outcome[d] \in {"failed_store_chunks", "stored"}

DocumentIdsOf(d) == {db.Document[r].id : r \in {x \in 1..Len(db.Document) : db.Document[x].doc = d}}

\* C19: in every state every Chunk row, committed or waiting in a
\* transaction, carries as documentId the id of a committed Document row,
\* and store_chunks runs only with the id of a committed Document row.
C19_ChunkRefersToStoredDocument ==
    /\ \A k \in 1..Len(db.Chunk) :
        \E r \in 1..Len(db.Document) : db.Document[r].id = db.Chunk[k].documentId
    /\ \A k \in 1..Len(txn) :
        txn[k].table = "Chunk" =>
            \E r \in 1..Len(db.Document) : db.Document[r].id = txn[k].row.documentId
    /\ pc = "sc_loop" => document_id \in DocumentIdsOf(doc_idx)

C19_Witness ==
    /\ Len(all_docs) = 2
    /\ outcome[1] = "failed_store_document"
    /\ outcome[2] = "stored"
    /\ Len(db.Chunk) >= 2

\* C20: no Document row and no Chunk row of a document is in the store
\* before the text of that document has been chunked and its embeddings
\* have been computed.
C20_RowsAfterChunkAndEmbed ==
    \A d \in 1..Len(all_docs) :
        (\/ DocumentRowsOf(d) # <<>>
         \/ \E k \in 1..Len(db.Chunk) : db.Chunk[k].documentId \in DocumentIdsOf(d)) =>
            (Chunked(d) /\ Embedded(d))

(***************************************************************************)
(* ingest_topic with the module's own CHUNK_SIZE and CHUNK_OVERLAP on      *)
(* candidate documents without content and with 1200 characters none of    *)
(* which is whitespace.                                                    *)
(***************************************************************************)
DefaultChunkSize == 500
DefaultChunkOverlap == 100

LongContents ==
    {[i \in 1..1200 |-> "a"], [i \in 1..1200 |-> IF i % 2 = 1 THEN "a" ELSE "b"]}

\* The lists of at most two candidate documents of which at most one has
\* content.
CandidateLists ==
    LET none == [content |-> <<>>]
    IN  {<<>>, <<none>>, <<none, none>>}
        \cup UNION {{<<[content |-> t]>>, <<none, [content |-> t]>>, <<[content |-> t], none>>} :
                     t \in LongContents}

InitE2E ==
    /\ pc = "it_start"
    /\ CHUNK_SIZE = DefaultChunkSize
    /\ CHUNK_OVERLAP = DefaultChunkOverlap
    /\ text = <<>>
    /\ rejoined = <<>>
    /\ rechunks = <<>>
    /\ chunks = <<>>
    /\ DEEPSEEK_API_KEY \in BOOLEAN
    /\ EmbedIdle
    /\ all_docs \in CandidateLists
    /\ doc_idx = 0
    /\ conn = NoConn
    /\ txn = <<>>
    /\ db = EmptyDb
    /\ uuid_counter = 0
    /\ document_id = 0
    /\ sc_i = 0
    /\ sc_result = "none"
    /\ documents_saved = 0
    /\ chunks_saved = 0
    /\ processed = [d \in 1..Len(all_docs) |-> 0]
    /\ outcome = [d \in 1..Len(all_docs) |-> "pending"]
    /\ FetchIdle
    /\ PubmedIdle
    /\ MainIdle

SpecE2E == InitE2E /\ [][Next]_vars

\* Every provider answer with status 200 and a well-formed body carried one
\* embedding for each text of its batch.
AnswersMatchBatches ==
    \A b \in 1..Len(responses) :
        responses[b].status = "ok" =>
            responses[b].n = Len(Batch(chunks, (b - 1) * batch_size))

\* C15: a candidate document without content never has a Document row or a
\* Chunk row; and when the run on the two documents has ended with the
\* document of 1200 characters stored, no statement having failed and the
\* provider having answered with one embedding per chunk or not at all, the
\* store holds exactly one Document row and exactly 3 Chunk rows, all of
\* that document, with sequenceNumbers 0, 1, 2.
C15_OneDocumentThreeChunks ==
    /\ \A d \in 1..Len(all_docs) :
        Content(d) = <<>> =>
            /\ DocumentRowsOf(d) = <<>>
            /\ \A k \in 1..Len(db.Chunk) :
                \A r \in 1..Len(db.Document) :
                    db.Chunk[k].documentId = db.Document[r].id => db.Document[r].doc # d
    /\ \A d \in 1..Len(all_docs) :
        (pc = "it_return" /\ outcome[d] = "stored" /\ AnswersMatchBatches) =>
            /\ Len(db.Document) = 1
            /\ db.Document[1].doc = d
            /\ Len(db.Chunk) = 3
            /\ SequenceNumbers(db.Chunk) = <<0, 1, 2>>
            /\ \A k \in 1..3 : db.Chunk[k].documentId = db.Document[1].id

C15_Witness ==
    /\ pc = "it_return"
    /\ outcome = <<"no_content", "stored">>
    /\ AnswersMatchBatches
    /\ Len(db.Chunk) = 3
    /\ Len(db.Chunk[1].text) = 500
    /\ Len(db.Chunk[3].text) = 400

(***************************************************************************)
(* main(): the connection test, the choice of the topics from sys.argv[1], *)
(* the loop over the topics.  ingest_topic starts with                     *)
(* fetch_pubmed_articles, whose result is any list of PubmedDocs: every    *)
(* article it returns has a non-empty abstract.  A KeyboardInterrupt can   *)
(* be delivered at any statement; no except Exception branch catches it.   *)
(***************************************************************************)
surgical_fields ==
    <<"General surgery", "Neurosurgery", "Orthopedic surgery",
      "Cardiothoracic surgery", "Plastic surgery", "Pediatric surgery",
      "Vascular surgery", "Trauma surgery", "Colorectal surgery",
      "Surgical oncology", "Bariatric surgery", "Transplant surgery",
      "Endocrine surgery", "Robotic surgery techniques",
      "Minimally invasive surgical procedures">>

\* sys.argv[1]: a number of fields or the name of a field.
Argvs ==
    {[isdigit |-> TRUE, int |-> n, name |-> ""] : n \in {0, 1, 2}}
    \cup {[isdigit |-> FALSE, int |-> 0, name |-> f] : f \in {"Neurosurgery", "Dermatology"}}

PubmedDocs ==
    {<<>>, <<[content |-> <<" ">>]>>, <<[content |-> <<"a", "b">>]>>,
     <<[content |-> <<"a", "b">>], [content |-> <<"a", "b", "c">>]>>}

\* Lines 529-571, once the connection test has passed.
FieldsOf(arg) ==
    IF arg.isdigit
    THEN SubSeq(surgical_fields, 1, Min(arg.int, Len(surgical_fields)))
    ELSE IF arg.name \in Range(surgical_fields) THEN <<arg.name>> ELSE <<>>

FieldKnown(arg) == arg.isdigit \/ arg.name \in Range(surgical_fields)

MainStart ==
    /\ pc = "main_start"
    /\ \E connected \in BOOLEAN, arg \in Argvs :
        IF connected /\ FieldKnown(arg)
        THEN /\ fields_to_process' = FieldsOf(arg)
             /\ topic_log' = [i \in 1..Len(FieldsOf(arg)) |-> "not_started"]
             /\ field_idx' = 1
             /\ pc' = "main_loop"
        ELSE /\ pc' = "main_done"
             /\ UNCHANGED <<fields_to_process, topic_log, field_idx>>
    /\ UNCHANGED <<paramVars, chunkerVars, chunks, embedVars, topicVars, fetchVars,
                   pubmedVars, interrupted, earlier_runs>>

\* ingest_topic(field) up to all_docs (lines 574, 456-474).
MainIngestTopic ==
    /\ pc = "main_loop"
    /\ field_idx <= Len(fields_to_process)
    /\ \E docs \in PubmedDocs :
        /\ all_docs' = docs
        /\ processed' = [d \in 1..Len(docs) |-> 0]
        /\ outcome' = [d \in 1..Len(docs) |-> "pending"]
    /\ doc_idx' = 0
    /\ topic_log' = [topic_log EXCEPT ![field_idx] = "started"]
    /\ pc' = "it_start"
    /\ UNCHANGED <<paramVars, chunkerVars, chunks, embedVars, conn, txn, db, uuid_counter,
                   document_id, sc_i, sc_result, documents_saved, chunks_saved,
                   fetchVars, pubmedVars, fields_to_process, field_idx, interrupted,
                   earlier_runs>>

\* How the ingest_topic call that has returned went.
TopicResult ==
    IF all_docs = <<>> THEN "no_docs"
    ELSE IF doc_idx = 0 THEN "connect_failed"
    ELSE "done"

\* ingest_topic has returned: time.sleep(2) and the next field.
MainSleep ==
    /\ pc = "it_return"
    /\ topic_log' = [topic_log EXCEPT ![field_idx] = TopicResult]
    /\ now' = now + 2 * TicksPerSecond
    /\ field_idx' = field_idx + 1
    /\ pc' = "main_loop"
    /\ UNCHANGED <<paramVars, chunkerVars, chunks, embedVars, topicVars, fetchVars,
                   esearch, efetch, pmids, pm_idx, articles, request_times,
                   limiter_calls, fields_to_process, interrupted, earlier_runs>>

MainEnd ==
    /\ pc = "main_loop"
    /\ field_idx > Len(fields_to_process)
    /\ pc' = "main_done"
    /\ UNCHANGED <<paramVars, chunkerVars, chunks, embedVars, topicVars, fetchVars,
                   pubmedVars, mainVars>>

\* A KeyboardInterrupt: raised at the statement main or ingest_topic is at,
\* it passes every except Exception and reaches main's except
\* KeyboardInterrupt, which breaks out of the loop (lines 577-579); outside
\* the loop it ends the program.  Nothing else runs: the connection of the
\* topic in progress is left as it is.
KeyboardInterrupt ==
    /\ pc # "main_done"
    /\ interrupted' = TRUE
    /\ topic_log' =
        IF pc \in {"main_start", "main_loop"} THEN topic_log
        ELSE [topic_log EXCEPT ![field_idx] =
                IF pc = "it_return" THEN TopicResult ELSE "interrupted"]
    /\ pc' = "main_done"
    /\ UNCHANGED <<paramVars, chunkerVars, chunks, embedVars, topicVars, fetchVars,
                   pubmedVars, fields_to_process, field_idx, earlier_runs>>

InitMain ==
    /\ pc = "main_start"
    /\ CHUNK_SIZE = ScaledChunkSize
    /\ CHUNK_OVERLAP = ScaledChunkOverlap
    /\ text = <<>>
    /\ rejoined = <<>>
    /\ rechunks = <<>>
    /\ chunks = <<>>
    /\ DEEPSEEK_API_KEY \in BOOLEAN
    /\ EmbedIdle
    /\ TopicIdle
    /\ FetchIdle
    /\ PubmedIdle
    /\ MainIdle

NextMain ==
    \/ MainStart
    \/ MainIngestTopic
    \/ MainSleep
    \/ MainEnd
    \/ KeyboardInterrupt
    \/ Next

SpecMain == InitMain /\ [][NextMain]_vars

\* C12: when get_db_connection fails at the start of a topic no later topic
\* is started and the run ends without another topic having been processed;
\* when the connection test at startup fails no topic is ever started; and a
\* run that was not interrupted and left a topic unstarted has had such a
\* failure.
C12_UnreachableStoreEndsRun ==
    /\ \A i, j \in 1..Len(topic_log) :
        (i < j /\ topic_log[i] = "connect_failed") => topic_log[j] = "not_started"
    /\ (pc = "main_done" /\ ~interrupted) =>
        \/ \A i \in 1..Len(topic_log) : topic_log[i] # "not_started"
        \/ \E i \in 1..Len(topic_log) : topic_log[i] = "connect_failed"

\* C18: after a KeyboardInterrupt every topic that was started has been
\* carried to its end, every candidate document of the topic in progress
\* has been processed, and no topic after it was started.
C18_InterruptWaitsForTopicBoundary ==
    interrupted =>
        /\ \A i \in 1..Len(topic_log) : topic_log[i] \notin {"started", "interrupted"}
        /\ (field_idx \in 1..Len(topic_log) /\ topic_log[field_idx] = "done") =>
            \A d \in 1..Len(all_docs) : outcome[d] # "pending"
        /\ \A j \in 1..Len(topic_log) : j > field_idx => topic_log[j] = "not_started"

\* C21: in get_embeddings no request is sent without a delay after the
\* request before it: every provider call that was followed by another one
\* was followed by a time.sleep first, whether it succeeded or failed.
C21_DelayBetweenProviderCalls ==
    \A b \in 1..Len(responses) : b < Len(responses) => pacing[b] > 0

\* C22: the sleep after the failed attempt numbered a (attempts counted
\* from 1, as the log messages count them) lasts 2^a seconds, and every
\* request is sent with a User-Agent chosen for it: there are at least as
\* many random.choice calls as requests.
C22_ExponentialBackoffFreshAgent ==
    /\ \A a \in 1..Len(delays) : delays[a] = 2 ^ a
    /\ choices >= Len(fetch_log)

(***************************************************************************)
(* The loop indices of split_text_into_chunks whose window was appended,   *)
(* in loop order, and how many characters of the text two chunks that      *)
(* start at s1 < s2 have in common.                                        *)
(***************************************************************************)
KeptStarts(t) ==
    SelectSeq(range(Len(t), Stride), LAMBDA i : ~IsWhitespaceOnly(Window(t, i)))

Shared(s1, len1, s2) == IF s1 + len1 > s2 THEN s1 + len1 - s2 ELSE 0

DroppedBetween(t, s1, s2) ==
    {k \in DroppedWindows(t) : s1 < (k - 1) * Stride /\ (k - 1) * Stride < s2}

\* C23 (as claimed): the returned chunks are the windows of the text that
\* are not whitespace-only; chunk k+1 starts exactly C-O characters after
\* chunk k, and every two consecutive chunks except possibly the last two
\* share exactly O characters.
C23_ConsecutiveChunksShareO ==
    pc = "chunk_split" =>
        LET st == KeptStarts(text)
        IN  /\ Len(chunks) = Len(st)
            /\ \A j \in 1..Len(chunks) :
                chunks[j] = Window(text, st[j]) /\ ~IsWhitespaceOnly(chunks[j])
            /\ \A j \in 1..(Len(chunks) - 1) :
                /\ st[j + 1] - st[j] = Stride
                /\ j < Len(chunks) - 1 =>
                    Shared(st[j], Len(chunks[j]), st[j + 1]) = CHUNK_OVERLAP

\* C23 (amended): the returned chunks are the windows of the text that are
\* not whitespace-only; chunk k+1 starts C-O characters after chunk k plus
\* C-O for every whitespace-only window dropped between the two; two chunks
\* that start C-O apart share exactly O characters, the last O of the
\* earlier and the first O of the later, when the earlier has the full
\* length C, and share the whole later chunk otherwise.
C23_ChunksShareOUnlessDroppedOrShort ==
    pc = "chunk_split" =>
        LET st == KeptStarts(text)
        IN  /\ Len(chunks) = Len(st)
            /\ \A j \in 1..Len(chunks) :
                chunks[j] = Window(text, st[j]) /\ ~IsWhitespaceOnly(chunks[j])
            /\ \A j \in 1..(Len(chunks) - 1) :
                /\ st[j + 1] - st[j]
                    = Stride * (1 + Cardinality(DroppedBetween(text, st[j], st[j + 1])))
                /\ st[j + 1] - st[j] = Stride =>
                    IF Len(chunks[j]) = CHUNK_SIZE
                    THEN /\ Shared(st[j], Len(chunks[j]), st[j + 1]) = CHUNK_OVERLAP
                         /\ SubSeq(chunks[j], Stride + 1, CHUNK_SIZE)
                                = SubSeq(chunks[j + 1], 1, CHUNK_OVERLAP)
                    ELSE Shared(st[j], Len(chunks[j]), st[j + 1]) = Len(chunks[j + 1])

C23_Witness ==
    /\ pc = "chunk_split"
    /\ CHUNK_OVERLAP > 0
    /\ Len(chunks) = 3
    /\ KeptStarts(text)[2] - KeptStarts(text)[1] = 2 * Stride
    /\ KeptStarts(text)[3] - KeptStarts(text)[2] = Stride
    /\ Len(chunks[2]) = CHUNK_SIZE

\* C24: every connection ingest_topic opens is closed by the time the
\* processing of the topic has ended, whether the topic ran to completion,
\* documents failed, or the run was interrupted.
C24_ConnectionClosedWhenTopicEnds ==
    pc \in {"it_return", "main_loop", "main_done"} => ~conn.open

(***************************************************************************)
(* ingest_topic called a second time for the same topic, the search        *)
(* returning the same candidate documents: the store keeps its rows, the   *)
(* locals of the call start afresh (lines 456-488).  earlier_runs keeps    *)
(* how the first call went and how many rows the store held at its end.    *)
(***************************************************************************)
IngestTopicAgain ==
    /\ pc = "it_return"
    /\ earlier_runs = <<>>
    /\ earlier_runs' = <<[outcome |-> outcome,
                          document_rows |-> Len(db.Document),
                          chunk_rows |-> Len(db.Chunk)]>>
    /\ doc_idx' = 0
    /\ processed' = [d \in 1..Len(all_docs) |-> 0]
    /\ outcome' = [d \in 1..Len(all_docs) |-> "pending"]
    /\ pc' = "it_start"
    /\ UNCHANGED <<paramVars, chunkerVars, chunks, embedVars, all_docs, conn, txn, db,
                   uuid_counter, document_id, sc_i, sc_result, documents_saved,
                   chunks_saved, fetchVars, pubmedVars, fields_to_process, field_idx,
                   topic_log, interrupted>>

InitRerun ==
    /\ pc = "it_start"
    /\ CHUNK_SIZE = ScaledChunkSize
    /\ CHUNK_OVERLAP = ScaledChunkOverlap
    /\ text = <<>>
    /\ rejoined = <<>>
    /\ rechunks = <<>>
    /\ chunks = <<>>
    /\ DEEPSEEK_API_KEY \in BOOLEAN
    /\ EmbedIdle
    /\ all_docs \in PubmedDocs
    /\ doc_idx = 0
    /\ conn = NoConn
    /\ txn = <<>>
    /\ db = EmptyDb
    /\ uuid_counter = 0
    /\ document_id = 0
    /\ sc_i = 0
    /\ sc_result = "none"
    /\ documents_saved = 0
    /\ chunks_saved = 0
    /\ processed = [d \in 1..Len(all_docs) |-> 0]
    /\ outcome = [d \in 1..Len(all_docs) |-> "pending"]
    /\ FetchIdle
    /\ PubmedIdle
    /\ MainIdle

NextRerun ==
    \/ IngestTopicAgain
    \/ Next

SpecRerun == InitRerun /\ [][NextRerun]_vars

IsPrefix(s, t) == Len(s) <= Len(t) /\ SubSeq(t, 1, Len(s)) = s

\* The outcomes of a candidate document whose store_document returned.
DocumentStored(how) ==
    how \in {"no_chunks", "failed_get_embeddings", "failed_store_chunks", "stored"}

\* The calls of ingest_topic, the running one included, in which the
\* Document row of candidate d was inserted.
RunsThatStored(d) ==
    {r \in 1..Len(earlier_runs) : DocumentStored(earlier_runs[r].outcome[d])}
        \cup (IF DocumentStored(outcome[d]) THEN {Len(earlier_runs) + 1} ELSE {})

RowsAppendOnly ==
    /\ IsPrefix(db.Document, db'.Document)
    /\ IsPrefix(db.Chunk, db'.Chunk)

NoDeduplication ==
    /\ \A r1, r2 \in 1..Len(db.Document) :
        r1 # r2 => db.Document[r1].id # db.Document[r2].id
    /\ \A k1, k2 \in 1..Len(db.Chunk) :
        k1 # k2 => db.Chunk[k1].id # db.Chunk[k2].id
    /\ pc = "it_return" =>
        \A d \in 1..Len(all_docs) :
            Len(DocumentRowsOf(d)) = Cardinality(RunsThatStored(d))
    /\ \A r \in 1..Len(earlier_runs), k \in 1..Len(db.Chunk) :
        k > earlier_runs[r].chunk_rows =>
            \E x \in 1..Len(db.Document) :
                /\ x > earlier_runs[r].document_rows
                /\ db.Document[x].id = db.Chunk[k].documentId

\* C25: store_document gives every row a new id and inserts it, so after
\* ingest_topic ran twice on the same candidate documents the store holds
\* one Document row per call that stored the candidate (two when both did),
\* the Chunk rows of the second call belong to the Document rows of the
\* second call, and no step removes or changes a row that is in the store.
C25_AppendOnlyWithoutDeduplication ==
    /\ []NoDeduplication
    /\ [][RowsAppendOnly]_vars

C25_Witness ==
    /\ pc = "it_return"
    /\ Len(earlier_runs) = 1
    /\ Len(all_docs) = 2
    /\ earlier_runs[1].outcome = <<"stored", "stored">>
    /\ outcome = <<"stored", "stored">>
    /\ Len(DocumentRowsOf(1)) = 2
    /\ Len(DocumentRowsOf(2)) = 2
    /\ Cardinality({db.Chunk[k].documentId : k \in 1..Len(db.Chunk)}) = 4

\* C26: when ingest_topic has come to its end, documents_saved is the
\* number of Document rows and chunks_saved the number of Chunk rows that
\* were committed during the topic, whatever the embedding provider and the
\* store writes did.
C26_CountersMatchStore ==
    (pc = "it_return" /\ doc_idx > 0) =>
        /\ documents_saved = Len(db.Document)
        /\ chunks_saved = Len(db.Chunk)

=============================================================================
